---- MODULE Spec2Model ----
(***************************************************************************)
(* Model of rftp's src/connect.rs: create_session, authenticate_host and   *)
(* authenticate_session.  Every `?` of the source is a step that either    *)
(* continues or ends the run with the error of the failing call; calls     *)
(* into std / ssh2 / the console are steps whose outcome the environment   *)
(* chooses.  The known_hosts file is the only state that survives a run.   *)
(***************************************************************************)
EXTENDS Integers, Sequences, FiniteSets, TLC

(* ------------------------------ bounds --------------------------------- *)
\* number of create_session calls one process makes (the file persists)
MaxRuns == 2
\* number of distinct host keys a server may present
NKeys == 2

(* ------------------------- program constants --------------------------- *)
DefaultPort == 22
SessionTimeout == 10000
MaxAttempts == 3
U16Max == 65535

Procs == {"p1", "p2"}
Main == "p1"

\* Option values: None, or Some(x) holding x
None == <<>>
Some(x) == <<x>>
Get(o) == o[1]

(* -------------------------- error messages ----------------------------- *)
ConfigurationError == << "unable to parse port number" >>
HomeDirError == << "unable to find home directory" >>
ProtocolError == << "unable to get host key" >>
FingerprintError == << "unable to get fingerprint of host" >>
UntrustedHostError(destination) ==
    <<"the authenticity of host ", destination, " cannot be established">>
IdentityMismatchError == << "possible person in the middle attack" >>
CheckFailureError == << "failed to check known hosts" >>
AuthenticationFailedError == << "unable to authenticate session" >>
\* errors of the callees propagated unchanged by `?`
IoError(call) == <<"io::Error", call>>
Ssh2Error(call) == <<"ssh2::Error", call>>

Ok == <<"Ok">>
Err(e) == <<"Err", e>>
NoResult == <<"running">>

(* ------------------------------ inputs --------------------------------- *)
Destinations == {"example.com", "other.org"}
\* the optional port argument: None, or the characters of the string
PortStrings == { <<"2","2">>, <<"2","2","2","2">>, <<"+","2","2">>,
                 <<"6","5","5","3","6">>, <<"-","1">>, <<"2","2","x">>, <<>> }
PortArgs == { None } \cup { Some(str) : str \in PortStrings }
\* peer ports a successful connect to the bare destination string can have
BarePeerPorts == {22, 2222}

Digits == <<"0","1","2","3","4","5","6","7","8","9">>
IsDigit(c) == \E d \in 1..10 : Digits[d] = c
DigitVal(c) == (CHOOSE d \in 1..10 : Digits[d] = c) - 1

RECURSIVE ParseDigits(_, _)
\* checked accumulation of decimal digits; None on a non-digit or on overflow
ParseDigits(s, acc) ==
    IF s = <<>> THEN Some(acc)
    ELSE IF ~IsDigit(Head(s)) THEN None
    ELSE LET v == acc * 10 + DigitVal(Head(s))
         IN IF v > U16Max THEN None ELSE ParseDigits(Tail(s), v)

RECURSIVE ParseDigitsWrapping(_, _)
ParseDigitsWrapping(s, acc) ==
    IF s = <<>> THEN Some(acc)
    ELSE IF ~IsDigit(Head(s)) THEN None
    ELSE ParseDigitsWrapping(Tail(s), (acc * 10 + DigitVal(Head(s))) % (U16Max + 1))

\* ParseU16 with the bug of an unchecked accumulation: overflow wraps around
ParseU16_Wrapping(s) ==
    IF s = <<>> THEN None
    ELSE IF Head(s) = "+"
         THEN IF Tail(s) = <<>> THEN None ELSE ParseDigitsWrapping(Tail(s), 0)
         ELSE ParseDigitsWrapping(s, 0)

\* str::parse::<u16>: an optional leading "+", then at least one digit
ParseU16(s) ==
    IF s = <<>> THEN None
    ELSE IF Head(s) = "+"
         THEN IF Tail(s) = <<>> THEN None ELSE ParseDigits(Tail(s), 0)
         ELSE ParseDigits(s, 0)

(* ------------------------- console input ------------------------------- *)
\* the answers an operator can type, without the surrounding whitespace
Cores == { <<>>, <<"y">>, <<"Y">>, <<"n">>, <<"N">>, <<"y","e","s">>,
           <<"Y","e","s">>, <<"Y","E","S">>, <<"y","E","S">>, <<"y","E","s">>,
           <<"n","o">>, <<"y"," ","e","s">>, <<"y","y">>, <<"y","e","s","s">> }
\* the answers also tried with other whitespace around them
PaddedCores == { <<>>, <<"Y">>, <<"y","e","s">>, <<"y","E","s">>, <<"n","o">> }
LeftPads == { <<>>, <<"\t"," ">> }
\* read_line keeps the line ending; at end of input there is none
RightPads == { <<>>, <<" ","\r","\n">> }
Inputs == { c \o <<"\n">> : c \in Cores }
          \cup { l \o c \o r : l \in LeftPads, c \in PaddedCores, r \in RightPads }

IsWhitespace(c) == c \in {" ", "\t", "\n", "\r"}

RECURSIVE TrimStart(_)
TrimStart(s) ==
    IF s # <<>> /\ IsWhitespace(Head(s)) THEN TrimStart(Tail(s)) ELSE s

RECURSIVE TrimEnd(_)
TrimEnd(s) ==
    IF s # <<>> /\ IsWhitespace(s[Len(s)])
    THEN TrimEnd(SubSeq(s, 1, Len(s) - 1)) ELSE s

\* str::trim
Trim(s) == TrimEnd(TrimStart(s))

Lower(c) == IF c = "Y" THEN "y" ELSE IF c = "E" THEN "e"
            ELSE IF c = "S" THEN "s" ELSE c
\* IsAffirmative with the bug of comparing case-insensitively
IsAffirmative_AnyCase(answer) ==
    [ n \in 1..Len(answer) |-> Lower(answer[n]) ] \in { <<"y">>, <<"y","e","s">> }

\* the match arm of line 74
IsAffirmative(answer) ==
    answer \in { <<"Y">>, <<"y">>, <<"Y","E","S">>, <<"Y","e","s">>,
                 <<"y","e","s">> }

(* ----------------------------- base64 ---------------------------------- *)
B64Alphabet ==
    << "A","B","C","D","E","F","G","H","I","J","K","L","M","N","O","P",
       "Q","R","S","T","U","V","W","X","Y","Z","a","b","c","d","e","f",
       "g","h","i","j","k","l","m","n","o","p","q","r","s","t","u","v",
       "w","x","y","z","0","1","2","3","4","5","6","7","8","9","+","/" >>
B64Char(n) == B64Alphabet[n + 1]

RECURSIVE Base64(_)
\* base64::encode (standard alphabet, padded) of a sequence of bytes
Base64(bytes) ==
    IF bytes = <<>> THEN <<>>
    ELSE IF Len(bytes) = 1
    THEN << B64Char(bytes[1] \div 4), B64Char((bytes[1] % 4) * 16), "=", "=" >>
    ELSE IF Len(bytes) = 2
    THEN << B64Char(bytes[1] \div 4),
            B64Char((bytes[1] % 4) * 16 + bytes[2] \div 16),
            B64Char((bytes[2] % 16) * 4), "=" >>
    ELSE << B64Char(bytes[1] \div 4),
            B64Char((bytes[1] % 4) * 16 + bytes[2] \div 16),
            B64Char((bytes[2] % 16) * 4 + bytes[3] \div 64),
            B64Char(bytes[3] % 64) >>
         \o Base64(SubSeq(bytes, 4, Len(bytes)))

(* ----------------------- host keys and the store ----------------------- *)
KeyTypes == <<"ssh-rsa", "ssh-ed25519">>
\* the host key record the handshake produces: raw bytes and key type
HostKeyRecord(n) ==
    [ bytes |-> <<n, 255 - n, (n * 85) % 256>>,
      typ |-> KeyTypes[(n % 2) + 1] ]
HostKeys == { HostKeyRecord(n) : n \in 1..NKeys }

RECURSIVE ToDecimal(_)
\* "%d" of a non-negative number
ToDecimal(n) ==
    IF n < 10 THEN << Digits[n + 1] >>
    ELSE ToDecimal(n \div 10) \o << Digits[(n % 10) + 1] >>

\* host names of known_hosts entries: "host" and "[host]:port"
PlainName(host) == << host >>
BracketName(host, portno) == << "[", host, "]", ":" >> \o ToDecimal(portno)

\* an entry of the in-memory collection; the key is kept base64-encoded
Entry(name, keybytes, typ) == [ name |-> name, key |-> Base64(keybytes), typ |-> typ ]

\* one line of the OpenSSH known_hosts file: "name keytype base64key"
FormatLine(e) == e.name \o <<" ", e.typ, " ">> \o e.key

FirstSpace(line) == CHOOSE k \in 1..Len(line) :
                        line[k] = " " /\ \A j \in 1..(k - 1) : line[j] # " "
ParseLine(line) ==
    LET k == FirstSpace(line)
    IN [ name |-> SubSeq(line, 1, k - 1),
         typ |-> line[k + 1],
         key |-> SubSeq(line, k + 3, Len(line)) ]

\* WriteFile with the bug of starting at the second entry
WriteFile_SkipsFirst(entries) ==
    [ n \in 1..(Len(entries) - 1) |-> FormatLine(entries[n + 1]) ]

\* KnownHosts::write_file / read_file on the whole collection
WriteFile(entries) == [ n \in 1..Len(entries) |-> FormatLine(entries[n]) ]
ReadFile(lines) == [ n \in 1..Len(lines) |-> ParseLine(lines[n]) ]

Match == "Match"
NotFound == "NotFound"
Mismatch == "Mismatch"
Failure == "Failure"
NoCheck == "not checked"

\* check_port with the bug of the port-less check: plain names only
check_port_PlainOnly(entries, host, portno, keybytes) ==
    LET hits == { n \in 1..Len(entries) : entries[n].name = PlainName(host) }
    IN IF \E n \in hits : entries[n].key = Base64(keybytes) THEN Match
       ELSE IF hits # {} THEN Mismatch
       ELSE NotFound

\* KnownHosts::check_port: entries named "[host]:port" or "host" are the
\* candidates; one with the same key is a Match, candidates with other
\* keys only are a Mismatch, no candidate is NotFound
check_port(entries, host, portno, keybytes) ==
    LET names == { BracketName(host, portno), PlainName(host) }
        hits == { n \in 1..Len(entries) : entries[n].name \in names }
    IN IF \E n \in hits : entries[n].key = Base64(keybytes) THEN Match
       ELSE IF hits # {} THEN Mismatch
       ELSE NotFound

\* add with host and comment swapped: add("", key, destination, ..)
add_SwappedComment(entries, host, keyrec) ==
    Append(entries, Entry(PlainName(""), keyrec.bytes, keyrec.typ))

\* KnownHosts::add(destination, key, "", key_type): a plain-named entry
add(entries, host, keyrec) ==
    Append(entries, Entry(PlainName(host), keyrec.bytes, keyrec.typ))

\* known_hosts files found on disk when the first run starts
InitialFiles ==
    { <<>>,
      WriteFile(<< Entry(BracketName("example.com", 2222), HostKeyRecord(1).bytes,
                         HostKeyRecord(1).typ),
                   Entry(PlainName("other.org"), HostKeyRecord(2).bytes,
                         HostKeyRecord(2).typ) >>) }

(* ------------------------------ state ---------------------------------- *)
VARIABLES
    file,          \* lines of <home>/.ssh/known_hosts, shared by all processes
    pc,            \* where each process is in create_session
    runs,          \* create_session calls started by each process
    file0,         \* the file as it was when the current run started
    destination,   \* argument of create_session
    portArg,       \* argument `port` of create_session: None or its characters
    bare,          \* result of TcpStream::connect(destination), once evaluated
    tcp,           \* the stream bound to `tcp`, once connected
    port,          \* the parsed port, then (line 22) the peer port of tcp
    session,       \* None or the ssh2 session: timeout, compress, authenticated
    host_key,      \* the host key record the handshake produced, or None
    known_hosts,   \* the in-memory collection of authenticate_host
    check,         \* the CheckResult of line 47 in the current run, or NoCheck
    fingerprint,   \* the text of line 50-61, or None
    input,         \* the line read from stdin, or None
    i,             \* iterations of the loop of authenticate_session completed
    auth_methods,  \* the method set of the current iteration
    result,        \* what create_session returned, or NoResult
    events,        \* connections and console/store I/O of the current run, in order
    trusted        \* history: the (host, port, key) the operator accepted and
                   \* write_file persisted, in any run so far

connVars == <<bare, tcp, port>>
hostVars == <<host_key, known_hosts, check, fingerprint, input>>
authVars == <<i, auth_methods>>
argVars == <<runs, file0, destination, portArg>>
vars == <<file, trusted, pc, argVars, connVars, session, hostVars, authVars,
          result, events>>

Set(f, p, v) == [f EXCEPT ![p] = v]
Log(p, e) == events' = [events EXCEPT ![p] = Append(@, e)]
Goto(p, label) == pc' = [pc EXCEPT ![p] = label]
\* `?` on an Err, or an explicit Err(..) return: create_session returns it
Return(p, r) == /\ result' = [result EXCEPT ![p] = r]
                /\ pc' = [pc EXCEPT ![p] = "done"]

Count(p, e) == Cardinality({ n \in 1..Len(events[p]) : events[p][n] = e })
Happened(p, e) == \E n \in 1..Len(events[p]) : events[p][n] = e

Init ==
    /\ file \in InitialFiles
    /\ trusted = {}
    /\ pc = [p \in Procs |-> "idle"]
    /\ runs = [p \in Procs |-> 0]
    /\ file0 = [p \in Procs |-> <<>>]
    /\ destination = [p \in Procs |-> ""]
    /\ portArg = [p \in Procs |-> None]
    /\ bare = [p \in Procs |-> None]
    /\ tcp = [p \in Procs |-> None]
    /\ port = [p \in Procs |-> None]
    /\ session = [p \in Procs |-> None]
    /\ host_key = [p \in Procs |-> None]
    /\ known_hosts = [p \in Procs |-> <<>>]
    /\ check = [p \in Procs |-> NoCheck]
    /\ fingerprint = [p \in Procs |-> None]
    /\ input = [p \in Procs |-> None]
    /\ i = [p \in Procs |-> 0]
    /\ auth_methods = [p \in Procs |-> {}]
    /\ result = [p \in Procs |-> NoResult]
    /\ events = [p \in Procs |-> <<>>]

(* --------------------------- create_session ---------------------------- *)
\* a caller invokes create_session(destination, username, port)
Start(p) ==
    /\ pc[p] \in {"idle", "done"}
    /\ runs[p] < MaxRuns
    /\ runs' = Set(runs, p, runs[p] + 1)
    /\ file0' = Set(file0, p, file)
    /\ \E d \in Destinations : destination' = Set(destination, p, d)
    /\ \E a \in PortArgs :
         /\ portArg' = Set(portArg, p, a)
         /\ Goto(p, IF a = None THEN "connect_bare" ELSE "parse_port")
    /\ bare' = Set(bare, p, None)
    /\ tcp' = Set(tcp, p, None)
    /\ port' = Set(port, p, None)
    /\ session' = Set(session, p, None)
    /\ host_key' = Set(host_key, p, None)
    /\ known_hosts' = Set(known_hosts, p, <<>>)
    /\ check' = Set(check, p, NoCheck)
    /\ fingerprint' = Set(fingerprint, p, None)
    /\ input' = Set(input, p, None)
    /\ i' = Set(i, p, 0)
    /\ auth_methods' = Set(auth_methods, p, {})
    /\ result' = Set(result, p, NoResult)
    /\ events' = Set(events, p, <<>>)
    /\ UNCHANGED <<file, trusted>>

\* lines 15-17: port.parse::<u16>().map_err(..)?
ParsePort(p) ==
    /\ pc[p] = "parse_port"
    /\ LET parsed == ParseU16(Get(portArg[p]))
       IN IF parsed = None
          THEN /\ Return(p, Err(ConfigurationError))
               /\ UNCHANGED port
          ELSE /\ port' = Set(port, p, parsed)
               /\ Goto(p, "connect")
               /\ UNCHANGED result
    /\ UNCHANGED <<file, trusted, argVars, bare, tcp, session, hostVars, authVars, events>>

\* line 18: TcpStream::connect((destination, port))?
Connect(p) ==
    /\ pc[p] = "connect"
    /\ \/ /\ Log(p, "connect_port_ok")
          /\ tcp' = Set(tcp, p, Some([peer |-> Get(port[p])]))
          /\ Goto(p, "peer_addr")
          /\ UNCHANGED result
       \/ /\ Log(p, "connect_port_err")
          /\ Return(p, Err(IoError("connect")))
          /\ UNCHANGED tcp
    /\ UNCHANGED <<file, trusted, argVars, bare, port, session, hostVars, authVars>>

\* line 20, the receiver: TcpStream::connect(destination)
ConnectBare(p) ==
    /\ pc[p] = "connect_bare"
    /\ \/ \E n \in BarePeerPorts :
            /\ Log(p, "connect_bare_ok")
            /\ bare' = Set(bare, p, Some([ok |-> TRUE, peer |-> n]))
       \/ /\ Log(p, "connect_bare_err")
          /\ bare' = Set(bare, p, Some([ok |-> FALSE, peer |-> 0]))
    /\ Goto(p, "connect_22")
    /\ UNCHANGED <<file, trusted, argVars, tcp, port, session, hostVars, authVars, result>>

\* unwrap_or with the bug of keeping the receiver whatever it is
unwrap_or_KeepsReceiver(first, fallback) == Some([peer |-> first.peer])

\* line 20: Result::unwrap_or on the result of the bare connect
unwrap_or(first, fallback) ==
    IF first.ok THEN Some([peer |-> first.peer]) ELSE fallback

\* line 20, the argument TcpStream::connect((destination, 22))? which is
\* evaluated before unwrap_or is called, then unwrap_or itself
Connect22(p) ==
    /\ pc[p] = "connect_22"
    /\ \/ /\ Log(p, "connect_22_ok")
          /\ tcp' = Set(tcp, p, unwrap_or(Get(bare[p]), Some([peer |-> DefaultPort])))
          /\ Goto(p, "peer_addr")
          /\ UNCHANGED result
       \/ /\ Log(p, "connect_22_err")
          /\ Return(p, Err(IoError("connect")))
          /\ UNCHANGED tcp
    /\ UNCHANGED <<file, trusted, argVars, bare, port, session, hostVars, authVars>>

\* peer_port with the bug of assuming the default port
peer_port_Default(stream) == DefaultPort

\* line 22: the port of the stream's peer address
peer_port(stream) == stream.peer

\* line 22: tcp.peer_addr()?.port()
PeerAddr(p) ==
    /\ pc[p] = "peer_addr"
    /\ \/ /\ port' = Set(port, p, Some(peer_port(Get(tcp[p]))))
          /\ Goto(p, "session_new")
          /\ UNCHANGED result
       \/ /\ Return(p, Err(IoError("peer_addr")))
          /\ UNCHANGED port
    /\ UNCHANGED <<file, trusted, argVars, bare, tcp, session, hostVars, authVars, events>>

\* lines 24-27: Session::new()?, set_timeout, set_compress, set_tcp_stream
SessionNew(p) ==
    /\ pc[p] = "session_new"
    /\ \/ /\ session' = Set(session, p, Some([timeout |-> SessionTimeout,
                                              compress |-> TRUE,
                                              authenticated |-> FALSE]))
          /\ Goto(p, "handshake")
          /\ UNCHANGED result
       \/ /\ Return(p, Err(Ssh2Error("new")))
          /\ UNCHANGED session
    /\ UNCHANGED <<file, trusted, argVars, connVars, hostVars, authVars, events>>

\* line 28: session.handshake()?; the server presents its host key
Handshake(p) ==
    /\ pc[p] = "handshake"
    /\ \/ /\ Log(p, "handshake_ok")
          /\ \E k \in { Some(r) : r \in HostKeys } \cup { None } :
               host_key' = Set(host_key, p, k)
          /\ Goto(p, "known_hosts")
          /\ UNCHANGED result
       \/ /\ Log(p, "handshake_err")
          /\ Return(p, Err(Ssh2Error("handshake")))
          /\ UNCHANGED host_key
    /\ UNCHANGED <<file, trusted, argVars, connVars, session, known_hosts, check,
                   fingerprint, input, authVars>>

(* -------------------------- authenticate_host -------------------------- *)
\* line 41: session.known_hosts()?
KnownHostsNew(p) ==
    /\ pc[p] = "known_hosts"
    /\ \/ /\ known_hosts' = Set(known_hosts, p, <<>>)
          /\ Goto(p, "home_dir")
          /\ UNCHANGED result
       \/ /\ Return(p, Err(Ssh2Error("known_hosts")))
          /\ UNCHANGED known_hosts
    /\ UNCHANGED <<file, trusted, argVars, connVars, session, host_key, check,
                   fingerprint, input, authVars, events>>

\* lines 42-44: home_dir().ok_or(..)?.join(".ssh/known_hosts")
HomeDir(p) ==
    /\ pc[p] = "home_dir"
    /\ \/ /\ Goto(p, "read_file")
          /\ UNCHANGED result
       \/ Return(p, Err(HomeDirError))
    /\ UNCHANGED <<file, trusted, argVars, connVars, session, hostVars, authVars, events>>

\* line 45: known_hosts.read_file(&known_hosts_path, OpenSSH)?
ReadKnownHosts(p) ==
    /\ pc[p] = "read_file"
    /\ \/ /\ Log(p, "read_file_ok")
          /\ known_hosts' = Set(known_hosts, p, known_hosts[p] \o ReadFile(file))
          /\ Goto(p, "host_key")
          /\ UNCHANGED result
       \/ /\ Log(p, "read_file_err")
          /\ Return(p, Err(Ssh2Error("read_file")))
          /\ UNCHANGED known_hosts
    /\ UNCHANGED <<file, trusted, argVars, connVars, session, host_key, check,
                   fingerprint, input, authVars>>

\* line 46: session.host_key().ok_or(..)?
HostKey(p) ==
    /\ pc[p] = "host_key"
    /\ IF host_key[p] = None
       THEN Return(p, Err(ProtocolError))
       ELSE /\ Goto(p, "check_port")
            /\ UNCHANGED result
    /\ UNCHANGED <<file, trusted, argVars, connVars, session, hostVars, authVars, events>>

\* the ways authenticate_host hands the session back to line 30
ReturnVerified(p) ==
    /\ known_hosts' = Set(known_hosts, p, <<>>)
    /\ fingerprint' = Set(fingerprint, p, None)
    /\ input' = Set(input, p, None)
    /\ Goto(p, "loop")
    /\ UNCHANGED result

\* line 48: Match => Ok(session)
MatchArm(p) ==
    /\ ReturnVerified(p)
    /\ UNCHANGED events

\* NotFoundArm with the bug of adding an unknown host without asking
NotFoundArm_AutoAdd(p) ==
    /\ Goto(p, "add")
    /\ UNCHANGED <<known_hosts, fingerprint, input, result, events>>

\* line 49: NotFound => the fingerprint, the prompt and the decision
NotFoundArm(p) ==
    /\ Goto(p, "fingerprint")
    /\ UNCHANGED <<known_hosts, fingerprint, input, result, events>>

\* MismatchArm with the bug of treating a changed key like an unknown host
MismatchArm_Prompts(p) ==
    /\ Goto(p, "fingerprint")
    /\ UNCHANGED <<known_hosts, fingerprint, input, result, events>>

\* lines 85-90: Mismatch => the warning on stderr and the error
MismatchArm(p) ==
    /\ Log(p, "eprintln_warning")
    /\ Return(p, Err(IdentityMismatchError))
    /\ UNCHANGED <<known_hosts, fingerprint, input>>

\* FailureArm with the bug of letting a failed check pass
FailureArm_Proceeds(p) ==
    /\ ReturnVerified(p)
    /\ UNCHANGED events

\* line 91: Failure => the error
FailureArm(p) ==
    /\ Return(p, Err(CheckFailureError))
    /\ UNCHANGED <<known_hosts, fingerprint, input, events>>

\* line 47: match known_hosts.check_port(destination, port, key); the library
\* may also report Failure
CheckPort(p) ==
    /\ pc[p] = "check_port"
    /\ \E r \in { check_port(known_hosts[p], destination[p], Get(port[p]),
                             Get(host_key[p]).bytes), Failure } :
         /\ check' = Set(check, p, r)
         /\ IF r = Match THEN MatchArm(p)
            ELSE IF r = NotFound THEN NotFoundArm(p)
            ELSE IF r = Mismatch THEN MismatchArm(p)
            ELSE FailureArm(p)
    /\ UNCHANGED <<file, trusted, argVars, connVars, session, host_key, authVars>>

\* Session::host_key_hash: an opaque digest of the key, per algorithm
Digest(alg, keybytes) ==
    IF alg = "Sha256" THEN << keybytes[1], Len(keybytes), 32, 0 >>
    ELSE << keybytes[1], Len(keybytes), 20 >>

\* lines 58-60: format!("{}:{}", hash_type, base64::encode(fingerprint))
FormatFingerprint(hash_type, digest) == << hash_type, ":" >> \o Base64(digest)

\* lines 50-61: Sha256 if the session has it, else Sha1, else the error
Fingerprint(p) ==
    /\ pc[p] = "fingerprint"
    /\ \E sha256 \in BOOLEAN, sha1 \in BOOLEAN :
         LET key == Get(host_key[p]).bytes
         IN IF sha256
            THEN /\ fingerprint' = Set(fingerprint, p,
                        Some(FormatFingerprint("SHA256", Digest("Sha256", key))))
                 /\ Goto(p, "prompt")
                 /\ UNCHANGED result
            ELSE IF sha1
            THEN /\ fingerprint' = Set(fingerprint, p,
                        Some(FormatFingerprint("SHA128", Digest("Sha1", key))))
                 /\ Goto(p, "prompt")
                 /\ UNCHANGED result
            ELSE /\ Return(p, Err(FingerprintError))
                 /\ UNCHANGED fingerprint
    /\ UNCHANGED <<file, trusted, argVars, connVars, session, host_key, known_hosts,
                   check, input, authVars, events>>

\* lines 63-69: the three prints and stdout().flush()?
Prompt(p) ==
    /\ pc[p] = "prompt"
    /\ Log(p, "prompt_add_host")
    /\ \/ /\ Goto(p, "read_line")
          /\ UNCHANGED result
       \/ Return(p, Err(IoError("flush")))
    /\ UNCHANGED <<file, trusted, argVars, connVars, session, hostVars, authVars>>

\* lines 71-72: stdin().read_line(&mut input)?
ReadLine(p) ==
    /\ pc[p] = "read_line"
    /\ Log(p, "read_line")
    /\ \/ /\ \E line \in Inputs : input' = Set(input, p, Some(line))
          /\ Goto(p, "match_input")
          /\ UNCHANGED result
       \/ /\ Return(p, Err(IoError("read_line")))
          /\ UNCHANGED input
    /\ UNCHANGED <<file, trusted, argVars, connVars, session, host_key, known_hosts,
                   check, fingerprint, authVars>>

\* lines 73-74 and 79-82: match input.trim().as_ref()
MatchInput(p) ==
    /\ pc[p] = "match_input"
    /\ IF IsAffirmative(Trim(Get(input[p])))
       THEN /\ Goto(p, "add")
            /\ UNCHANGED result
       ELSE Return(p, Err(UntrustedHostError(destination[p])))
    /\ UNCHANGED <<file, trusted, argVars, connVars, session, hostVars, authVars, events>>

\* line 75: known_hosts.add(destination, key, "", key_type.into())?
Add(p) ==
    /\ pc[p] = "add"
    /\ \/ /\ Log(p, "add_ok")
          /\ known_hosts' = Set(known_hosts, p,
                 add(known_hosts[p], destination[p], Get(host_key[p])))
          /\ Goto(p, "write_file")
          /\ UNCHANGED result
       \/ /\ Log(p, "add_err")
          /\ Return(p, Err(Ssh2Error("add")))
          /\ UNCHANGED known_hosts
    /\ UNCHANGED <<file, trusted, argVars, connVars, session, host_key, check,
                   fingerprint, input, authVars>>

\* WriteFailed with the bug of dropping the error, as `.ok()` would
WriteFailed_Ignored(p) == ReturnVerified(p)

\* line 76: the `?` on a failed write_file
WriteFailed(p) ==
    /\ Return(p, Err(Ssh2Error("write_file")))
    /\ UNCHANGED <<known_hosts, fingerprint, input>>

\* lines 76-77: known_hosts.write_file(&known_hosts_path, OpenSSH)?; Ok(session).
\* A failing write_file is taken to leave the file as it was.
WriteKnownHosts(p) ==
    /\ pc[p] = "write_file"
    /\ \/ /\ Log(p, "write_file_ok")
          /\ file' = WriteFile(known_hosts[p])
          /\ trusted' = trusted \cup
                 { <<destination[p], Get(port[p]), Get(host_key[p]).bytes>> }
          /\ ReturnVerified(p)
       \/ /\ Log(p, "write_file_err")
          /\ WriteFailed(p)
          /\ UNCHANGED <<file, trusted>>
    /\ UNCHANGED <<argVars, connVars, session, host_key, check, authVars>>

(* ------------------------ authenticate_session ------------------------- *)
Authenticated(p) == session[p] # None /\ Get(session[p]).authenticated
SetAuthenticated(p) ==
    session' = Set(session, p, Some([Get(session[p]) EXCEPT !.authenticated = TRUE]))

\* the comma-separated lists Session::auth_methods can return
MethodLists ==
    { <<"publickey">>, <<"password">>, <<"keyboard-interactive">>,
      <<"publickey", "password">>, <<"password", "publickey">>,
      <<"publickey", "keyboard-interactive">>,
      <<"publickey", "keyboard-interactive", "password">>, <<"">> }

\* .split(",").collect::<HashSet<&str>>()
Collect(list) == { list[n] : n \in 1..Len(list) }

\* Loop with the bug of an inclusive range, 0..=3
Loop_OffByOne(p) ==
    /\ pc[p] = "loop"
    /\ IF i[p] > MaxAttempts \/ Authenticated(p)
       THEN Goto(p, "after_loop")
       ELSE Goto(p, "auth_methods")
    /\ UNCHANGED <<file, trusted, argVars, connVars, session, hostVars, authVars,
                   result, events>>

\* lines 99-102: `for _ in 0..3` and the break
Loop(p) ==
    /\ pc[p] = "loop"
    /\ IF i[p] >= MaxAttempts \/ Authenticated(p)
       THEN Goto(p, "after_loop")
       ELSE Goto(p, "auth_methods")
    /\ UNCHANGED <<file, trusted, argVars, connVars, session, hostVars, authVars,
                   result, events>>

\* line 104: session.auth_methods(username)?.split(",").collect()
AuthMethods(p) ==
    /\ pc[p] = "auth_methods"
    /\ Log(p, "auth_methods")
    /\ \/ /\ \E list \in MethodLists :
               auth_methods' = Set(auth_methods, p, Collect(list))
          /\ Goto(p, "userauth_agent")
          /\ UNCHANGED result
       \/ /\ Return(p, Err(Ssh2Error("auth_methods")))
          /\ UNCHANGED auth_methods
    /\ UNCHANGED <<file, trusted, argVars, connVars, session, hostVars, i>>

\* line 106: the condition of the agent attempt
WantsAgent(p) == ~Authenticated(p) /\ "publickey" \in auth_methods[p]

\* WantsPassword with the bug of not looking at the offered methods
WantsPassword_AnyMethod(p) == ~Authenticated(p)

\* WantsPassword with the bug of not asking session.authenticated()
WantsPassword_IgnoresSession(p) == "password" \in auth_methods[p]

\* line 110: the condition of the password prompt
WantsPassword(p) == ~Authenticated(p) /\ "password" \in auth_methods[p]

\* lines 106-108: session.userauth_agent(username)?
UserauthAgent(p) ==
    /\ pc[p] = "userauth_agent"
    /\ IF WantsAgent(p)
       THEN /\ Log(p, "userauth_agent")
            /\ \/ /\ SetAuthenticated(p)
                  /\ Goto(p, "password")
                  /\ UNCHANGED result
               \/ /\ Return(p, Err(Ssh2Error("userauth_agent")))
                  /\ UNCHANGED session
       ELSE /\ Goto(p, "password")
            /\ UNCHANGED <<session, result, events>>
    /\ UNCHANGED <<file, trusted, argVars, connVars, hostVars, authVars>>

\* lines 110-111: prompt_password_stdout(..)?
PromptPassword(p) ==
    /\ pc[p] = "password"
    /\ IF WantsPassword(p)
       THEN /\ Log(p, "prompt_password")
            /\ \/ /\ Goto(p, "userauth_password")
                  /\ UNCHANGED <<result, i>>
               \/ /\ Return(p, Err(IoError("prompt_password")))
                  /\ UNCHANGED i
       ELSE /\ i' = Set(i, p, i[p] + 1)
            /\ Goto(p, "loop")
            /\ UNCHANGED <<result, events>>
    /\ UNCHANGED <<file, trusted, argVars, connVars, session, hostVars, auth_methods>>

\* line 112: session.userauth_password(username, &password).ok()
UserauthPassword(p) ==
    /\ pc[p] = "userauth_password"
    /\ Log(p, "userauth_password")
    /\ \/ SetAuthenticated(p)
       \/ UNCHANGED session
    /\ i' = Set(i, p, i[p] + 1)
    /\ Goto(p, "loop")
    /\ UNCHANGED <<file, trusted, argVars, connVars, hostVars, auth_methods, result>>

\* AfterLoop with the bug of not looking at session.authenticated()
AfterLoop_AlwaysOk(p) ==
    /\ pc[p] = "after_loop"
    /\ Return(p, Ok)
    /\ UNCHANGED <<file, trusted, argVars, connVars, session, hostVars, authVars, events>>

\* lines 148-152, and line 33
AfterLoop(p) ==
    /\ pc[p] = "after_loop"
    /\ IF Authenticated(p)
       THEN Return(p, Ok)
       ELSE Return(p, Err(AuthenticationFailedError))
    /\ UNCHANGED <<file, trusted, argVars, connVars, session, hostVars, authVars, events>>

(* --------------------------- specification ----------------------------- *)
\* one process calling create_session up to MaxRuns times, one after another
Next ==
    \/ Start(Main)
    \/ ParsePort(Main)
    \/ Connect(Main)
    \/ ConnectBare(Main)
    \/ Connect22(Main)
    \/ PeerAddr(Main)
    \/ SessionNew(Main)
    \/ Handshake(Main)
    \/ KnownHostsNew(Main)
    \/ HomeDir(Main)
    \/ ReadKnownHosts(Main)
    \/ HostKey(Main)
    \/ CheckPort(Main)
    \/ Fingerprint(Main)
    \/ Prompt(Main)
    \/ ReadLine(Main)
    \/ MatchInput(Main)
    \/ Add(Main)
    \/ WriteKnownHosts(Main)
    \/ Loop(Main)
    \/ AuthMethods(Main)
    \/ UserauthAgent(Main)
    \/ PromptPassword(Main)
    \/ UserauthPassword(Main)
    \/ AfterLoop(Main)

Spec == Init /\ [][Next]_vars

\* two processes, each calling create_session once with a port, for a host
\* of its own, and each operator answering yes or no; the run of a process
\* is followed to the end of authenticate_host
RaceHost(p) == IF p = Main THEN "example.com" ELSE "other.org"
RaceAnswers == { <<"y","e","s","\n">>, <<"n","o","\n">> }
RaceScope ==
    \A p \in Procs :
       /\ runs[p] <= 1
       /\ destination[p] \in {"", RaceHost(p)}
       /\ portArg[p] \in {None, Some(<<"2","2">>)}
       /\ pc[p] # "connect_bare"
       /\ input[p] \in {None} \cup { Some(a) : a \in RaceAnswers }

RaceStep(p) ==
    \/ Start(p)
    \/ ParsePort(p)
    \/ Connect(p)
    \/ PeerAddr(p)
    \/ SessionNew(p)
    \/ Handshake(p)
    \/ KnownHostsNew(p)
    \/ HomeDir(p)
    \/ ReadKnownHosts(p)
    \/ HostKey(p)
    \/ CheckPort(p)
    \/ Fingerprint(p)
    \/ Prompt(p)
    \/ ReadLine(p)
    \/ MatchInput(p)
    \/ Add(p)
    \/ WriteKnownHosts(p)

NextRace == (\E p \in Procs : RaceStep(p)) /\ RaceScope'

SpecRace == Init /\ [][NextRace]_vars

\* authenticate_session (lines 95-153) on its own: one call with a session
\* that has completed the handshake and host verification, authenticated or
\* not, as the function's parameter allows
InitAuth ==
    /\ file \in InitialFiles
    /\ trusted = {}
    /\ pc = [p \in Procs |-> IF p = Main THEN "loop" ELSE "idle"]
    /\ runs = [p \in Procs |-> IF p = Main THEN 1 ELSE 0]
    /\ file0 = [p \in Procs |-> IF p = Main THEN file ELSE <<>>]
    /\ \E d \in Destinations :
         destination = [p \in Procs |-> IF p = Main THEN d ELSE ""]
    /\ portArg = [p \in Procs |-> None]
    /\ bare = [p \in Procs |-> None]
    /\ tcp = [p \in Procs |-> IF p = Main THEN Some([peer |-> DefaultPort]) ELSE None]
    /\ port = [p \in Procs |-> IF p = Main THEN Some(DefaultPort) ELSE None]
    /\ \E a \in BOOLEAN :
         session = [p \in Procs |->
                      IF p = Main THEN Some([timeout |-> SessionTimeout,
                                             compress |-> TRUE,
                                             authenticated |-> a])
                      ELSE None]
    /\ \E r \in HostKeys :
         host_key = [p \in Procs |-> IF p = Main THEN Some(r) ELSE None]
    /\ known_hosts = [p \in Procs |-> <<>>]
    /\ check = [p \in Procs |-> IF p = Main THEN Match ELSE NoCheck]
    /\ fingerprint = [p \in Procs |-> None]
    /\ input = [p \in Procs |-> None]
    /\ i = [p \in Procs |-> 0]
    /\ auth_methods = [p \in Procs |-> {}]
    /\ result = [p \in Procs |-> NoResult]
    /\ events = [p \in Procs |-> <<>>]

NextAuth ==
    \/ Loop(Main)
    \/ AuthMethods(Main)
    \/ UserauthAgent(Main)
    \/ PromptPassword(Main)
    \/ UserauthPassword(Main)
    \/ AfterLoop(Main)

SpecAuth == InitAuth /\ [][NextAuth]_vars

(* ------------------------------ claims --------------------------------- *)
\* the events of the Host Trust Verifier's console and of the store
HostConsoleEvents == {"prompt_add_host", "read_line"}
StoreWriteEvents == {"add_ok", "add_err", "write_file_ok", "write_file_err"}
\* the events of the Authenticator
AuthEvents == {"auth_methods", "userauth_agent", "prompt_password", "userauth_password"}
AuthLabels == {"loop", "auth_methods", "userauth_agent", "password",
               "userauth_password", "after_loop"}
NoneHappened(p, es) == \A e \in es : ~Happened(p, e)

\* the base64 keys the file held, when the run started, under a name that
\* stands for (destination, port) of the run
KeysOnFileFor(p) ==
    LET entries == ReadFile(file0[p])
    IN { entries[n].key : n \in { m \in 1..Len(entries) :
            entries[m].name \in { BracketName(destination[p], Get(port[p])),
                                  PlainName(destination[p]) } } }
\* line 47 has been evaluated in the current run and the library gave an answer
Checked(p) == check[p] \notin {NoCheck, Failure}
PresentedKey(p) == Base64(Get(host_key[p]).bytes)

\* C1: when the file holds an entry for the host and port of the run and no
\* such entry has the presented key, the check is a Mismatch and the run ends
\* at once with IdentityMismatchError: no prompt was printed, no line was
\* read, the collection in memory and the file are as loaded, and no step of
\* authenticate_session was taken.
C1_MismatchFailsClosed ==
    LET p == Main IN
    (Checked(p) /\ KeysOnFileFor(p) # {} /\ PresentedKey(p) \notin KeysOnFileFor(p))
    => /\ check[p] = Mismatch
       /\ pc[p] = "done"
       /\ result[p] = Err(IdentityMismatchError)
       /\ NoneHappened(p, HostConsoleEvents \cup StoreWriteEvents \cup AuthEvents)
       /\ known_hosts[p] = ReadFile(file0[p])
       /\ file = file0[p]

\* C1 witness: the scenario of the spec, port "2222" and another key on file
C1_Witness ==
    /\ check[Main] = Mismatch
    /\ pc[Main] = "done"
    /\ destination[Main] = "example.com"
    /\ portArg[Main] = Some(<<"2","2","2","2">>)
    /\ file0[Main] # <<>>

FourTokens == { <<"y","e","s">>, <<"y">>, <<"Y","E","S">>, <<"Y","e","s">> }
FiveTokens == FourTokens \cup { <<"Y">> }

\* the state of a run in which the answer has been read and matched
Answered(p) == input[p] # None /\ pc[p] # "match_input"
Declined(p) ==
    /\ pc[p] = "done"
    /\ result[p] = Err(UntrustedHostError(destination[p]))
    /\ NoneHappened(p, StoreWriteEvents \cup AuthEvents)
    /\ known_hosts[p] = ReadFile(file0[p])
    /\ file = file0[p]
\* the run has reached line 75
Accepted(p) == pc[p] = "add" \/ Happened(p, "add_ok") \/ Happened(p, "add_err")

\* C2 as stated: the answers that lead to add are exactly "yes", "y", "YES",
\* "Yes" after trimming; any other answer declines.
C2_FourTokensOnly ==
    LET p == Main IN
    Answered(p) =>
        IF Trim(Get(input[p])) \in FourTokens THEN Accepted(p) ELSE Declined(p)

\* C2 amended: the answers that lead to add are exactly "Y", "y", "YES",
\* "Yes", "yes" after trimming; any other answer leaves the collection and
\* the file as loaded, returns UntrustedHostError and no step of
\* authenticate_session is taken.
C2_FiveTokensOnly ==
    LET p == Main IN
    Answered(p) =>
        IF Trim(Get(input[p])) \in FiveTokens THEN Accepted(p) ELSE Declined(p)

\* C2 witness: an answer with surrounding whitespace accepted, and the case
\* the amendment adds
C2_Witness ==
    /\ pc[Main] = "write_file"
    /\ Get(input[Main]) = <<"\t", " ", "Y", " ", "\r", "\n">>

\* position of the first event e of the run (0 if there is none)
Pos(p, e) == IF Happened(p, e)
             THEN CHOOSE n \in 1..Len(events[p]) :
                     events[p][n] = e /\ \A m \in 1..(n - 1) : events[p][m] # e
             ELSE 0

\* C3: the file changes only in the step that persists the collection in the
\* Not Found branch, after the prompt was printed and the answer read, the
\* answer being one of the accepted tokens; the step appends one line to the
\* file the run started with.  Every other step of every run leaves it alone.
C3_StoreChangesOnlyByConsent ==
    [][ file' # file =>
          LET p == Main IN
          /\ pc[p] = "write_file"
          /\ check[p] = NotFound
          /\ 0 < Pos(p, "prompt_add_host")
          /\ Pos(p, "prompt_add_host") < Pos(p, "read_line")
          /\ Pos(p, "read_line") < Pos(p, "add_ok")
          /\ input[p] # None
          /\ Trim(Get(input[p])) \in FiveTokens
          /\ file = file0[p]
          /\ Len(file') = Len(file) + 1
          /\ SubSeq(file', 1, Len(file)) = file ]_vars

\* C3 witness: a run that changed the file and went on to authenticate
C3_Witness ==
    /\ file # file0[Main]
    /\ pc[Main] = "auth_methods"
    /\ Happened(Main, "write_file_ok")

HandshakenSession ==
    Some([timeout |-> SessionTimeout, compress |-> TRUE, authenticated |-> FALSE])

\* C4: when the file holds an entry with the presented key under a name that
\* stands for the host and port of the run, the check is a Match: the
\* verifier printed no prompt and no warning, read no line, did not touch the
\* store, and handed the session on as it got it, to authenticate_session.
C4_MatchNeedsNoConsole ==
    LET p == Main IN
    (Checked(p) /\ PresentedKey(p) \in KeysOnFileFor(p))
    => /\ check[p] = Match
       /\ NoneHappened(p, HostConsoleEvents \cup StoreWriteEvents
                          \cup {"eprintln_warning"})
       /\ file = file0[p]
       /\ pc[p] \in AuthLabels \cup {"done"}
       /\ (pc[p] = "loop" /\ i[p] = 0) => session[p] = HandshakenSession
       /\ pc[p] = "done" => Happened(p, "auth_methods")

\* C4 witness: a bracketed entry for port 2222 matched
C4_Witness ==
    /\ check[Main] = Match
    /\ pc[Main] = "loop"
    /\ i[Main] = 0
    /\ destination[Main] = "example.com"
    /\ port[Main] = Some(2222)
    /\ Len(file0[Main]) = 2
    /\ file = file0[Main]

\* C5: once an entry was accepted and persisted for (host, port, key), a later
\* run to the same host and port is a Match without a prompt when the server
\* presents that key, and a Mismatch when it presents another key.
C5_TrustRoundTrip ==
    LET p == Main IN
    \A t \in trusted :
        ( /\ Checked(p)
          /\ ~Happened(p, "write_file_ok")
          /\ destination[p] = t[1]
          /\ port[p] = Some(t[2]) )
        => IF Get(host_key[p]).bytes = t[3]
           THEN check[p] = Match /\ NoneHappened(p, HostConsoleEvents)
           ELSE check[p] = Mismatch

\* C5 witness: the second run finds the entry the first run persisted
C5_Witness ==
    /\ trusted # {}
    /\ check[Main] = Match
    /\ ~Happened(Main, "write_file_ok")
    /\ <<destination[Main], Get(port[Main]), Get(host_key[Main]).bytes>> \in trusted
    /\ file0[Main] = file
    /\ Len(file) = 1

\* the name OpenSSH gives (host, port): "host" for port 22, else "[host]:port"
OpenSshName(host, portno) ==
    IF portno = DefaultPort THEN PlainName(host) ELSE BracketName(host, portno)

\* C6 as stated: the accepted entry is the one line the file gained, and it
\* records the destination, the connected port and the presented key.
C6_EntryRecordsPort ==
    LET p == Main IN
    Happened(p, "write_file_ok") =>
        /\ Len(file) = Len(file0[p]) + 1
        /\ LET e == ParseLine(file[Len(file)])
           IN /\ e.key = PresentedKey(p)
              /\ e.name = OpenSshName(destination[p], Get(port[p]))

\* C7 as stated: at most 3 iterations, and a run of authenticate_session in
\* which the method sets were obtained and no method succeeded ends with
\* AuthenticationFailedError.
C7_ExhaustionIsAuthenticationFailed ==
    LET p == Main IN
    /\ Count(p, "auth_methods") <= MaxAttempts
    /\ ( /\ pc[p] = "done"
         /\ Happened(p, "auth_methods")
         /\ ~Authenticated(p)
         /\ result[p] \notin { Err(Ssh2Error("auth_methods")),
                               Err(IoError("prompt_password")) } )
       => result[p] = Err(AuthenticationFailedError)

\* C8 as stated: a failing agent attempt never ends authenticate_session.
C8_AgentFailureIsNotFatal ==
    result[Main] # Err(Ssh2Error("userauth_agent"))

CountIn(evs, e) == Cardinality({ n \in 1..Len(evs) : evs[n] = e })

\* C9: a password prompt or a password attempt is made only while the method
\* set obtained in the same iteration contains "password".
C9_PasswordOnlyIfOffered ==
    [][ LET p == Main IN
        ( \/ CountIn(events'[p], "prompt_password") > CountIn(events[p], "prompt_password")
          \/ CountIn(events'[p], "userauth_password") > CountIn(events[p], "userauth_password") )
        => /\ "password" \in auth_methods[p]
           /\ auth_methods'[p] = auth_methods[p]
           /\ CountIn(events[p], "auth_methods") = i[p] + 1 ]_vars

\* C9 witness: the second iteration prompts because the remote offers password
C9_Witness ==
    /\ pc[Main] = "userauth_password"
    /\ i[Main] = 1
    /\ auth_methods[Main] = {"password"}
    /\ Count(Main, "prompt_password") = 2

\* sockets opened in the current run
SocketsOpened(p) ==
    Count(p, "connect_port_ok") + Count(p, "connect_bare_ok") + Count(p, "connect_22_ok")

\* C10 as stated: port 22 is tried only after the bare attempt failed; when
\* the bare attempt succeeded the connector goes on with that stream, having
\* opened one socket.
C10_FallbackOnlyAfterFailure ==
    LET p == Main IN
    /\ (Happened(p, "connect_22_ok") \/ Happened(p, "connect_22_err"))
       => Happened(p, "connect_bare_err")
    /\ (Happened(p, "connect_bare_ok") /\ pc[p] # "connect_22")
       => /\ tcp[p] = Some([peer |-> Get(bare[p]).peer])
          /\ SocketsOpened(p) = 1


\* attempts against port 22 in the current run
Port22Attempts(p) == Count(p, "connect_22_ok") + Count(p, "connect_22_err")
ConnectAttempts(p) ==
    Port22Attempts(p) + Count(p, "connect_bare_ok") + Count(p, "connect_bare_err")
    + Count(p, "connect_port_ok") + Count(p, "connect_port_err")

\* C11: with no port given, once the bare attempt has failed and line 20 is
\* done, exactly one attempt against port 22 was made and nothing else was
\* tried; if it succeeded its stream (peer port 22) is the connector's
\* stream, if it failed create_session returned the connection error.
C11_SingleFallback ==
    LET p == Main IN
    (portArg[p] = None /\ Happened(p, "connect_bare_err") /\ pc[p] # "connect_22")
    => /\ Port22Attempts(p) = 1
       /\ ConnectAttempts(p) = 2
       /\ Happened(p, "connect_22_ok")
            => /\ tcp[p] = Some([peer |-> DefaultPort])
               /\ result[p] # Err(IoError("connect"))
       /\ Happened(p, "connect_22_err")
            => /\ tcp[p] = None
               /\ pc[p] = "done"
               /\ result[p] = Err(IoError("connect"))

\* C11 witness: the fallback stream went on to the handshake
C11_Witness ==
    /\ portArg[Main] = None
    /\ Happened(Main, "connect_bare_err")
    /\ Happened(Main, "connect_22_ok")
    /\ pc[Main] = "handshake"

RECURSIVE DecimalValue(_)
DecimalValue(ds) ==
    IF ds = <<>> THEN 0
    ELSE DecimalValue(SubSeq(ds, 1, Len(ds) - 1)) * 10 + DigitVal(ds[Len(ds)])

\* the text is a decimal number of an unsigned 16-bit integer
IsU16Text(text) ==
    LET ds == IF text # <<>> /\ text[1] = "+" THEN Tail(text) ELSE text
    IN /\ ds # <<>>
       /\ \A n \in 1..Len(ds) : IsDigit(ds[n])
       /\ DecimalValue(ds) <= 65535

\* C12: a port string that is no unsigned 16-bit number ends create_session
\* with ConfigurationError before anything else happened: no connection
\* attempt, no session, no handshake, no store access, no prompt; and a port
\* string that is one never gives that error.
C12_BadPortFailsFirst ==
    LET p == Main IN
    (portArg[p] # None /\ pc[p] # "parse_port")
    => IF IsU16Text(Get(portArg[p]))
       THEN /\ result[p] # Err(ConfigurationError)
            /\ port[p] # None
       ELSE /\ pc[p] = "done"
            /\ result[p] = Err(ConfigurationError)
            /\ events[p] = <<>>
            /\ tcp[p] = None
            /\ session[p] = None
            /\ known_hosts[p] = <<>>
            /\ file = file0[p]

\* C12 witness: a number one past the largest port
C12_Witness ==
    /\ portArg[Main] = Some(<<"6","5","5","3","6">>)
    /\ pc[Main] = "done"
    /\ result[Main] = Err(ConfigurationError)


\* the stage an event belongs to: 1 Connector, 2 Handshake, 3 Host Trust
\* Verifier, 4 Authenticator
ConnectEvents == {"connect_port_ok", "connect_port_err", "connect_bare_ok",
                  "connect_bare_err", "connect_22_ok", "connect_22_err"}
HandshakeEvents == {"handshake_ok", "handshake_err"}
Stage(e) == IF e \in ConnectEvents THEN 1
            ELSE IF e \in HandshakeEvents THEN 2
            ELSE IF e \in AuthEvents THEN 4
            ELSE 3
StageStarted(p, n) == \E m \in 1..Len(events[p]) : Stage(events[p][m]) = n
AuthLabelsAll == {"loop", "auth_methods", "userauth_agent", "password",
                  "userauth_password", "after_loop"}

\* the Verifier's verdict Verified: a Match, or a NotFound that the operator
\* accepted and that was written to the file
HostVerified(p) ==
    \/ check[p] = Match
    \/ check[p] = NotFound /\ Accepted(p) /\ Happened(p, "write_file_ok")

\* C13: the events of a run are in the order Connector, Handshake, Verifier,
\* Authenticator; the handshake starts only on an established stream, the
\* store is loaded and looked up only after a successful handshake, and the
\* method query, the agent and the password steps happen only after the
\* Verifier has verified the host.
C13_StagesInOrder ==
    LET p == Main
        ev == events[p]
    IN /\ \A n \in 1..(Len(ev) - 1) : Stage(ev[n]) <= Stage(ev[n + 1])
       /\ StageStarted(p, 2)
            => /\ tcp[p] # None
               /\ Happened(p, "connect_port_ok") \/ Happened(p, "connect_22_ok")
       /\ (StageStarted(p, 3) \/ known_hosts[p] # <<>> \/ check[p] # NoCheck)
            => /\ Happened(p, "handshake_ok")
               /\ ~Happened(p, "handshake_err")
       /\ (StageStarted(p, 4) \/ pc[p] \in AuthLabelsAll)
            => /\ HostVerified(p)
               /\ Happened(p, "handshake_ok")

\* C13 witness: the Authenticator at work on a host accepted in this run
C13_Witness ==
    /\ Happened(Main, "userauth_password")
    /\ check[Main] = NotFound
    /\ Happened(Main, "write_file_ok")

IsErr(r) == r[1] = "Err"

\* C14: create_session returns Ok only with a verified host and an
\* authenticated session; every other finished run returned an error.
C14_OkMeansVerifiedAndAuthenticated ==
    LET p == Main IN
    /\ result[p] = Ok
         => /\ pc[p] = "done"
            /\ HostVerified(p)
            /\ Authenticated(p)
            /\ Happened(p, "handshake_ok")
    /\ pc[p] = "done" => (result[p] = Ok \/ IsErr(result[p]))
    /\ (pc[p] = "done" /\ ~(HostVerified(p) /\ Authenticated(p)))
         => IsErr(result[p])

\* C14 witness: a run that returned the session after a password was accepted
C14_Witness ==
    /\ result[Main] = Ok
    /\ pc[Main] = "done"
    /\ Happened(Main, "userauth_password")
    /\ check[Main] = Match


\* the errors of the trust store's add and write_file
TrustStoreErrors == { Err(Ssh2Error("add")), Err(Ssh2Error("write_file")) }

\* C16: when adding the accepted entry or writing the file fails, the run
\* ends with that store error: no session is returned, nothing of the
\* Authenticator happens, and the file is as it was.
C16_StoreFailureIsFatal ==
    LET p == Main IN
    (Happened(p, "add_err") \/ Happened(p, "write_file_err"))
    => /\ pc[p] = "done"
       /\ result[p] \in TrustStoreErrors
       /\ Happened(p, "add_err") <=> result[p] = Err(Ssh2Error("add"))
       /\ NoneHappened(p, AuthEvents)
       /\ ~Authenticated(p)
       /\ file = file0[p]

\* C16 witness: the operator said yes and the file could not be written
C16_Witness ==
    /\ Happened(Main, "write_file_err")
    /\ IsAffirmative(Get(input[Main]))
    /\ result[Main] = Err(Ssh2Error("write_file"))

\* C17: the port of every lookup is the peer port of the stream the
\* handshake ran on: the parsed port when one was given, else the port the
\* bare attempt reached or, when that failed, 22.
C17_LookupPortIsPeerPort ==
    LET p == Main IN
    /\ session[p] # None
         => /\ tcp[p] # None
            /\ port[p] = Some(Get(tcp[p]).peer)
            /\ portArg[p] # None => port[p] = ParseU16(Get(portArg[p]))
            /\ portArg[p] = None
                 => port[p] = Some(IF Get(bare[p]).ok THEN Get(bare[p]).peer
                                   ELSE DefaultPort)
    /\ Checked(p)
         => check[p] = check_port(ReadFile(file0[p]), destination[p],
                                  Get(tcp[p]).peer, Get(host_key[p]).bytes)

\* C17 witness: a host known under port 2222 is found under that port
C17_Witness ==
    /\ check[Main] = Match
    /\ port[Main] = Some(2222)
    /\ destination[Main] = "example.com"
    /\ portArg[Main] = Some(<<"2","2","2","2">>)


\* C18: a fingerprint shown in the NotFound arm is "SHA256:" followed by the
\* base64 of the Sha256 digest, or "SHA1:" followed by the base64 of the Sha1
\* digest: the label names the algorithm that made the digest; and when no
\* digest is to be had the run fails with nothing asked and nothing stored.
C18_LabelNamesAlgorithm ==
    LET p == Main IN
    /\ fingerprint[p] # None
         => LET key == Get(host_key[p]).bytes
            IN Get(fingerprint[p]) \in
                   { FormatFingerprint("SHA256", Digest("Sha256", key)),
                     FormatFingerprint("SHA1", Digest("Sha1", key)) }
    /\ result[p] = Err(FingerprintError)
         => /\ NoneHappened(p, HostConsoleEvents \cup StoreWriteEvents)
            /\ file = file0[p]

\* C19: inside authenticate_session every method query, agent attempt and
\* password step is taken from a state where the session is not
\* authenticated; a session that is authenticated with nothing logged (it was
\* so on entry) stays without events and can only return Ok; and a call that
\* ends with an authenticated session ends with Ok.
C19_NothingOnceAuthenticated ==
    [][ LET p == Main IN
        /\ events'[p] # events[p]
             => /\ ~Authenticated(p)
                /\ events'[p][Len(events'[p])] \in AuthEvents
        /\ Authenticated(p)
             => /\ events'[p] = events[p]
                /\ session'[p] = session[p]
                /\ pc'[p] = "done" => result'[p] = Ok
      ]_vars

\* C19 witness: the session was authenticated on entry and the call returned
\* Ok with no query and no prompt
C19_Witness ==
    /\ pc[Main] = "done"
    /\ result[Main] = Ok
    /\ events[Main] = <<>>
    /\ Authenticated(Main)

\* the iterations of the loop entered so far in this call
InIteration(p) ==
    \/ pc[p] \in {"userauth_agent", "password", "userauth_password"}
    \/ /\ pc[p] = "done"
       /\ result[p] \in { Err(Ssh2Error("auth_methods")),
                          Err(Ssh2Error("userauth_agent")),
                          Err(IoError("prompt_password")) }
IterationsEntered(p) == i[p] + (IF InIteration(p) THEN 1 ELSE 0)
QueryBetween(p, m, n) == \E k \in (m + 1)..(n - 1) : events[p][k] = "auth_methods"

\* C20: in one call there are at most 3 password prompts and 3 method
\* queries; every iteration entered begins with one method query; two
\* password prompts, or two agent attempts, are separated by a method query
\* (at most one per iteration); and an agent attempt never follows the
\* password prompt of the same iteration.
C20_PromptsBounded ==
    LET p == Main
        ev == events[p]
    IN /\ Count(p, "prompt_password") <= MaxAttempts
       /\ Count(p, "userauth_password") <= Count(p, "prompt_password")
       /\ Count(p, "auth_methods") = IterationsEntered(p)
       /\ IterationsEntered(p) <= MaxAttempts
       /\ \A n \in 1..Len(ev) :
            ev[n] \in {"userauth_agent", "prompt_password"}
            => \E k \in 1..(n - 1) : ev[k] = "auth_methods"
       /\ \A m, n \in 1..Len(ev) :
            (m < n /\ ev[m] = ev[n] /\ ev[m] \in {"userauth_agent", "prompt_password"})
            => QueryBetween(p, m, n)
       /\ \A m, n \in 1..Len(ev) :
            (m < n /\ ev[m] = "prompt_password" /\ ev[n] = "userauth_agent")
            => QueryBetween(p, m, n)

\* C20 witness: three iterations, each with one query and one prompt
C20_Witness ==
    /\ Count(Main, "prompt_password") = 3
    /\ Count(Main, "auth_methods") = 3
    /\ pc[Main] = "done"
    /\ result[Main] = Err(AuthenticationFailedError)


\* the line of the entry process p's operator is asked to accept
OwnLine(p) ==
    FormatLine(Entry(PlainName(destination[p]), Get(host_key[p]).bytes,
                     Get(host_key[p]).typ))
OnFile(line) == \E n \in 1..Len(file) : file[n] = line

\* C15: with two processes the file is only ever changed by a process
\* writing out its own in-memory copy: the new file is what that process
\* loaded earlier plus its own accepted line, whatever the file holds at
\* that moment, so every line written by the other process since that load
\* is gone from the new file.
C15_RewriteFromOwnCopy ==
    [][ file' # file
        => \E p \in Procs :
             /\ pc[p] = "write_file"
             /\ pc'[p] = "loop"
             /\ LET copy == SubSeq(file', 1, Len(file') - 1)
                    loaded == SubSeq(known_hosts[p], 1, Len(known_hosts[p]) - 1)
                IN /\ Len(file') >= 1
                   /\ file'[Len(file')] = OwnLine(p)
                   /\ ReadFile(copy) = loaded
                   /\ \A n \in 1..Len(file) :
                        (\A k \in 1..Len(copy) : copy[k] # file[n])
                        => \A k \in 1..Len(file') : file'[k] # file[n]
      ]_vars

\* C15 witness: both operators accepted, both processes wrote the file, and
\* the file lacks the line of one of them (the lost update)
C15_Witness ==
    /\ \A p \in Procs :
         /\ destination[p] = RaceHost(p)
         /\ check[p] = NotFound
         /\ Happened(p, "write_file_ok")
    /\ Cardinality(trusted) = 2
    /\ \E p \in Procs : ~OnFile(OwnLine(p))

====
